---- MODULE Spec2Model ----
\* Model of the ShakespeareGPT web client (frontend/pages/index.tsx): the Home
\* component's state, its event handlers and the askQuestion request cycle,
\* together with the deployment environment it runs in (DEPLOYMENT.md).
EXTENDS Naturals, Sequences, FiniteSets, TLC

\* ---------------------------------------------------------------- bounds

\* The user clicks one of the first MaxPlayIndex rows of the Plays list.
MaxPlayIndex == 1
\* Number of POST /answer requests sent in one run.
MaxRequests == 2

\* ---------------------------------------------------------------- strings

\* A question is a sequence of characters; " " stands for white space.
WhiteSpace == {" "}

RECURSIVE TrimStart(_)
TrimStart(s) ==
    IF s # <<>> /\ Head(s) \in WhiteSpace THEN TrimStart(Tail(s)) ELSE s

RECURSIVE TrimEnd(_)
TrimEnd(s) ==
    IF s # <<>> /\ s[Len(s)] \in WhiteSpace
    THEN TrimEnd(SubSeq(s, 1, Len(s) - 1))
    ELSE s

\* Variant of Trim that leaves the text as it is.
TrimIdentity(s) == s

\* String.prototype.trim
Trim(s) == TrimEnd(TrimStart(s))

\* The texts the user leaves in the question input: empty, white space only,
\* a word, and a word with white space around it.
Questions == { <<>>, <<" ">>, <<"a">>, <<" ", "a", " ">> }

\* ---------------------------------------------------------------- plays

\* Variant of plays in which a title was entered twice, under two categories.
playsWithRepeatedTitle == <<
    [title |-> "All's Well That Ends Well", category |-> "Comedy"],
    [title |-> "Antony and Cleopatra", category |-> "Tragedy"],
    [title |-> "All's Well That Ends Well", category |-> "Tragedy"],
    [title |-> "As You Like It", category |-> "Comedy"] >>

plays == <<
    [title |-> "All's Well That Ends Well", category |-> "Comedy"],
    [title |-> "Antony and Cleopatra", category |-> "Tragedy"],
    [title |-> "As You Like It", category |-> "Comedy"],
    [title |-> "The Comedy of Errors", category |-> "Comedy"],
    [title |-> "Coriolanus", category |-> "Tragedy"],
    [title |-> "Cymbeline", category |-> "Tragedy"],
    [title |-> "Hamlet", category |-> "Tragedy"],
    [title |-> "Henry IV, Part 1", category |-> "History"],
    [title |-> "Henry IV, Part 2", category |-> "History"],
    [title |-> "Henry V", category |-> "History"],
    [title |-> "Henry VI, Part 1", category |-> "History"],
    [title |-> "Henry VI, Part 2", category |-> "History"],
    [title |-> "Henry VI, Part 3", category |-> "History"],
    [title |-> "Henry VIII", category |-> "History"],
    [title |-> "Julius Caesar", category |-> "Tragedy"],
    [title |-> "King John", category |-> "History"],
    [title |-> "King Lear", category |-> "Tragedy"],
    [title |-> "Love's Labour's Lost", category |-> "Comedy"],
    [title |-> "Macbeth", category |-> "Tragedy"],
    [title |-> "Measure for Measure", category |-> "Comedy"],
    [title |-> "The Merchant of Venice", category |-> "Comedy"],
    [title |-> "The Merry Wives of Windsor", category |-> "Comedy"],
    [title |-> "A Midsummer Night's Dream", category |-> "Comedy"],
    [title |-> "Much Ado About Nothing", category |-> "Comedy"],
    [title |-> "Othello", category |-> "Tragedy"],
    [title |-> "Pericles, Prince of Tyre", category |-> "Tragedy"],
    [title |-> "Richard II", category |-> "History"],
    [title |-> "Richard III", category |-> "History"],
    [title |-> "Romeo and Juliet", category |-> "Tragedy"],
    [title |-> "The Taming of the Shrew", category |-> "Comedy"],
    [title |-> "The Tempest", category |-> "Comedy"],
    [title |-> "Timon of Athens", category |-> "Tragedy"],
    [title |-> "Titus Andronicus", category |-> "Tragedy"],
    [title |-> "Troilus and Cressida", category |-> "Tragedy"],
    [title |-> "Twelfth Night", category |-> "Comedy"],
    [title |-> "The Two Gentlemen of Verona", category |-> "Comedy"],
    [title |-> "The Two Noble Kinsmen", category |-> "Tragedy"],
    [title |-> "The Winter's Tale", category |-> "Comedy"] >>

IsTragedy(play) == play.category = "Tragedy"

Range(list) == {list[i] : i \in 1..Len(list)}

\* A value that may be null: <<>> is null, <<v>> holds v.
null == <<>>


\* ---------------------------------------------------------------- state

VARIABLES
    question,           \* useState(''): the text of the question input
    answer,             \* useState(''): the answer shown
    sources,            \* useState([]): the sources shown
    loading,            \* useState(false)
    error,              \* useState(''): the error message shown
    selectedPlay,       \* useState(null): null or <<play>>
    showTragediesOnly,  \* useState(false)
    inflight,           \* the POST /answer calls awaiting their outcome
    nSent,              \* how many requests have been sent so far
    nAccepted,          \* how many submissions passed askQuestion's guard
    settled,            \* null or <<outcome>>: the outcome delivered last
                        \* since the latest submission
    answerOf,           \* null or <<response>>: where answer was taken from,
                        \* with the question text of its request
    sourcesOf,          \* null or <<response>>: where sources was taken from
    backendEnv,         \* the deployment's NEXT_PUBLIC_BACKEND_URL
    corpus              \* the corpus the backend has ingested

vars == <<question, answer, sources, loading, error, selectedPlay,
          showTragediesOnly, inflight, nSent, nAccepted, settled, answerOf,
          sourcesOf, backendEnv, corpus>>

view == <<question, answer, sources, loading, error, selectedPlay,
          showTragediesOnly>>

history == <<nAccepted, settled, answerOf, sourcesOf>>

deployment == <<backendEnv, corpus>>

backendUrl == "https://web-production-9f2fc.up.railway.app"

\* The rows of the Plays list.
filteredPlays ==
    IF showTragediesOnly THEN SelectSeq(plays, IsTragedy) ELSE plays

\* ---------------------------------------------------------------- server

\* Source entries of a 200 response (similarity in hundredths).
Source1 ==
    [index |-> 1, play |-> "Hamlet", act |-> "Act 3",
     scene_title |-> <<"Scene 1", ".", " A room in the castle">>,
     similarity |-> 91]

Source2 ==
    [index |-> 2, play |-> "Macbeth", act |-> "Act 5",
     scene_title |-> <<"Scene 5">>, similarity |-> 85]

NoContextAnswer == "No relevant context found."

\* Bodies of the 200 responses the backend gives.
OkResponses ==
    { [answer |-> "He weighs life against death [1][2].",
       sources |-> <<Source1, Source2>>],
      [answer |-> NoContextAnswer, sources |-> <<>>] }

\* The errors axios rejects the call with.
ServerErrors ==
    { [response |-> [data |-> [detail |-> "Question must not be empty"],
                     statusText |-> "Bad Request"],
       request |-> TRUE, message |-> "Request failed with status code 400"],
      [response |-> [data |-> [detail |-> ""],
                     statusText |-> "Internal Server Error"],
       request |-> TRUE, message |-> "Request failed with status code 500"],
      [response |-> [data |-> [title |-> "Service Unavailable"],
                     statusText |-> ""],
       request |-> TRUE, message |-> "Request failed with status code 503"] }

NetworkErrors == { [request |-> TRUE, message |-> "Network Error"] }

OtherErrors == { [message |-> "Invalid URL"], [message |-> ""] }

Errors == ServerErrors \cup NetworkErrors \cup OtherErrors

\* ---------------------------------------------------------------- askQuestion

\* Variant of RequestPayload that always sends a filters object.
RequestPayloadAlwaysFilters(q, sel) ==
    [question |-> q, k |-> 5,
     filters |-> [play |-> IF sel # null THEN sel[1].title ELSE ""]]

\* Variant of RequestPayload whose k follows the length of the question.
RequestPayloadKFromText(q, sel) ==
    IF sel # null
    THEN [question |-> q, k |-> Len(q), filters |-> [play |-> sel[1].title]]
    ELSE [question |-> q, k |-> Len(q)]

\* Variant of RequestPayload that sends the question without the white space
\* around it.
RequestPayloadTrimmed(q, sel) ==
    IF sel # null
    THEN [question |-> Trim(q), k |-> 5, filters |-> [play |-> sel[1].title]]
    ELSE [question |-> Trim(q), k |-> 5]

\* requestPayload: question and k, and filters when a play is selected.
RequestPayload(q, sel) ==
    IF sel # null
    THEN [question |-> q, k |-> 5, filters |-> [play |-> sel[1].title]]
    ELSE [question |-> q, k |-> 5]

\* The address the request is posted to.
RequestUrl == backendUrl \o "/answer"

\* Variant of DetailOrStatusText that prefers the status text.
StatusTextOrDetail(response) ==
    IF response.statusText # "" \/ "detail" \notin DOMAIN response.data
    THEN response.statusText
    ELSE response.data.detail

\* err.response.data?.detail || err.response.statusText
DetailOrStatusText(response) ==
    IF "detail" \in DOMAIN response.data /\ response.data.detail # ""
    THEN response.data.detail
    ELSE response.statusText

\* Variant of ErrorMessage with no branch for a call that got no response.
ErrorMessageResponseOnly(err) ==
    IF "response" \in DOMAIN err
    THEN "Server Error: " \o DetailOrStatusText(err.response)
    ELSE ""

\* The message the catch block sets.
ErrorMessage(err) ==
    IF "response" \in DOMAIN err
    THEN "Server Error: " \o DetailOrStatusText(err.response)
    ELSE IF "request" \in DOMAIN err
    THEN "Network Error: Unable to connect to the server. Please check your internet connection."
    ELSE "Error: " \o (IF err.message # "" THEN err.message
                       ELSE "An unexpected error occurred.")

\* Variant of Submit that leaves the sources of the previous answer in place.
SubmitKeepsSources ==
    /\ nSent < MaxRequests
    /\ loading' = TRUE
    /\ error' = ""
    /\ answer' = ""
    /\ answerOf' = null
    /\ settled' = null
    /\ nAccepted' = nAccepted + 1
    /\ nSent' = nSent + 1
    /\ inflight' = inflight \cup
           { [id |-> nSent + 1, url |-> RequestUrl,
              payload |-> RequestPayload(question, selectedPlay)] }
    /\ UNCHANGED <<question, sources, sourcesOf, selectedPlay,
                   showTragediesOnly, deployment>>

\* askQuestion past its guard: clear the display and send the request.
Submit ==
    /\ nSent < MaxRequests
    /\ loading' = TRUE
    /\ error' = ""
    /\ answer' = ""
    /\ sources' = <<>>
    /\ answerOf' = null
    /\ sourcesOf' = null
    /\ settled' = null
    /\ nAccepted' = nAccepted + 1
    /\ nSent' = nSent + 1
    /\ inflight' = inflight \cup
           { [id |-> nSent + 1, url |-> RequestUrl,
              payload |-> RequestPayload(question, selectedPlay)] }
    /\ UNCHANGED <<question, selectedPlay, showTragediesOnly, deployment>>

askQuestion ==
    IF Trim(question) = <<>> THEN UNCHANGED vars ELSE Submit

\* The awaited call resolves with a 200 response.
Resolve(r, data) ==
    /\ answer' = data.answer
    /\ sources' = data.sources
    /\ answerOf' =
           <<[id |-> r.id, question |-> r.payload.question, data |-> data]>>
    /\ sourcesOf' =
           <<[id |-> r.id, question |-> r.payload.question, data |-> data]>>
    /\ loading' = FALSE
    /\ inflight' = inflight \ {r}
    /\ settled' = <<[id |-> r.id, kind |-> "resolved", data |-> data]>>
    /\ UNCHANGED <<question, error, selectedPlay, showTragediesOnly, nSent,
                   nAccepted, deployment>>

\* Variant of Reject that sends the failed request once more.
RejectAndRetry(r, err) ==
    /\ error' = ErrorMessage(err)
    /\ loading' = FALSE
    /\ nSent' = nSent + 1
    /\ inflight' = (inflight \ {r}) \cup
           { [id |-> nSent + 1, url |-> r.url, payload |-> r.payload] }
    /\ settled' = <<[id |-> r.id, kind |-> "rejected", err |-> err]>>
    /\ UNCHANGED <<question, answer, sources, answerOf, sourcesOf,
                   selectedPlay, showTragediesOnly, nAccepted, deployment>>

\* The awaited call rejects.
Reject(r, err) ==
    /\ error' = ErrorMessage(err)
    /\ loading' = FALSE
    /\ inflight' = inflight \ {r}
    /\ settled' = <<[id |-> r.id, kind |-> "rejected", err |-> err]>>
    /\ UNCHANGED <<question, answer, sources, answerOf, sourcesOf,
                   selectedPlay, showTragediesOnly, nSent, nAccepted,
                   deployment>>

\* ---------------------------------------------------------------- handlers

selectPlay(play) ==
    /\ selectedPlay' = <<play>>
    /\ UNCHANGED <<question, answer, sources, loading, error,
                   showTragediesOnly, inflight, nSent, history, deployment>>

\* A click on a row of the Plays list.
ClickPlay ==
    \E i \in 1..MaxPlayIndex :
        /\ i <= Len(filteredPlays)
        /\ selectPlay(filteredPlays[i])

\* The Deselect button of the sidebar, shown while a play is selected.
Deselect ==
    /\ selectedPlay # null
    /\ selectedPlay' = null
    /\ UNCHANGED <<question, answer, sources, loading, error,
                   showTragediesOnly, inflight, nSent, history, deployment>>

\* The Clear Filter button of the info bar, shown while a play is selected.
ClearFilter ==
    /\ selectedPlay # null
    /\ selectedPlay' = null
    /\ UNCHANGED <<question, answer, sources, loading, error,
                   showTragediesOnly, inflight, nSent, history, deployment>>

\* Variant of ToggleTragedies that drops a selection the narrowed list hides.
ToggleTragediesDropsHidden ==
    /\ showTragediesOnly' = ~showTragediesOnly
    /\ selectedPlay' =
           IF /\ ~showTragediesOnly
              /\ selectedPlay # null
              /\ ~IsTragedy(selectedPlay[1])
           THEN null
           ELSE selectedPlay
    /\ UNCHANGED <<question, answer, sources, loading, error,
                   inflight, nSent, history, deployment>>

\* The Show Tragedies Only checkbox.
ToggleTragedies ==
    /\ showTragediesOnly' = ~showTragediesOnly
    /\ UNCHANGED <<question, answer, sources, loading, error, selectedPlay,
                   inflight, nSent, history, deployment>>

\* onChange of the question input.
TypeQuestion ==
    \E text \in Questions :
        /\ question' = text
        /\ UNCHANGED <<answer, sources, loading, error, selectedPlay,
                       showTragediesOnly, inflight, nSent, history,
                       deployment>>

Keys == {"Enter", "a"}

\* onKeyPress of the question input: e.key === 'Enter' && askQuestion()
PressKey ==
    \E key \in Keys :
        IF key = "Enter" THEN askQuestion ELSE UNCHANGED vars

\* The Send button, disabled while loading or while the question is blank.
ClickSend ==
    /\ ~(loading \/ Trim(question) = <<>>)
    /\ askQuestion

RequestResolves ==
    \E r \in inflight : \E data \in OkResponses : Resolve(r, data)

RequestRejects ==
    \E r \in inflight : \E err \in Errors : Reject(r, err)

\* The call of request id settles, one way or the other.
Settle(id) ==
    \E r \in inflight :
        /\ r.id = id
        /\ \/ \E data \in OkResponses : Resolve(r, data)
           \/ \E err \in Errors : Reject(r, err)

\* ---------------------------------------------------------------- rendering

\* The text under the Question heading of the answer panel.
DisplayedQuestion == question

ShowsError == error # ""

ShowsAnswer == answer # ""

ShowsSources == Len(sources) > 0

\* scene_title.split('.')[0]
FirstSegment(text) ==
    IF \E i \in 1..Len(text) : text[i] = "."
    THEN SubSeq(text, 1, (CHOOSE i \in 1..Len(text) :
                            /\ text[i] = "."
                            /\ \A j \in 1..(i - 1) : text[j] # ".") - 1)
    ELSE text

SourceCard(source) ==
    [heading |-> <<source.play, " - ", source.act>>,
     scene |-> FirstSegment(source.scene_title),
     badge |-> source.similarity]

\* Variant of RenderedSources that lists the cards bottom up.
RenderedSourcesReversed ==
    IF ShowsSources
    THEN [i \in 1..Len(sources) |-> SourceCard(sources[Len(sources) + 1 - i])]
    ELSE <<>>

\* The rows of the Plays list drawn as selected:
\* selectedPlay?.title === play.title
HighlightedRows ==
    {i \in 1..Len(filteredPlays) :
        selectedPlay # null /\ selectedPlay[1].title = filteredPlays[i].title}

\* The cards of the Sources section, top to bottom.
RenderedSources ==
    IF ShowsSources
    THEN [i \in 1..Len(sources) |-> SourceCard(sources[i])]
    ELSE <<>>

\* ---------------------------------------------------------------- system

\* The deployments the client is built for.
BackendEnvs ==
    {backendUrl, "https://your-railway-backend-url.up.railway.app"}

\* The corpora a backend serves: the whole canon, or the canon ingested
\* without the co-authored The Two Noble Kinsmen.
Corpora == {"canon", "canon without The Two Noble Kinsmen"}

\* What the backend's GET /plays returns: the plays of its corpus.
playsListing ==
    IF corpus = "canon"
    THEN Range(plays)
    ELSE Range(plays) \
           {[title |-> "The Two Noble Kinsmen", category |-> "Tragedy"]}

\* The state after the component is mounted.
Mounted ==
    /\ question = <<>>
    /\ answer = ""
    /\ sources = <<>>
    /\ loading = FALSE
    /\ error = ""
    /\ selectedPlay = null
    /\ showTragediesOnly = FALSE
    /\ inflight = {}
    /\ nSent = 0
    /\ nAccepted = 0
    /\ settled = null
    /\ answerOf = null
    /\ sourcesOf = null

\* The author's deployment: the backend the client names, serving the canon.
Init ==
    /\ Mounted
    /\ backendEnv = backendUrl
    /\ corpus = "canon"

\* Any deployment DEPLOYMENT.md describes.
InitDeployed ==
    /\ Mounted
    /\ backendEnv \in BackendEnvs
    /\ corpus \in Corpora

Next ==
    \/ TypeQuestion
    \/ ClickPlay
    \/ Deselect
    \/ ClearFilter
    \/ ToggleTragedies
    \/ PressKey
    \/ ClickSend
    \/ RequestResolves
    \/ RequestRejects

Spec == Init /\ [][Next]_vars

DeployedSpec == InitDeployed /\ [][Next]_vars

\* Every HTTP call eventually resolves or rejects.
FairSpec == Spec /\ \A id \in 1..MaxRequests : WF_vars(Settle(id))

\* ---------------------------------------------------------------- properties

\* A text with at least one character that is not white space.
HasWord(text) == \E i \in 1..Len(text) : text[i] \notin WhiteSpace

HasPrefix(text, prefix) ==
    /\ Len(text) >= Len(prefix)
    /\ SubSeq(text, 1, Len(prefix)) = prefix

Resolved == settled # null /\ settled[1].kind = "resolved"

Rejected == settled # null /\ settled[1].kind = "rejected"

\* C1: every POST /answer request carries a question that is not blank, and
\* no step taken while the question input is empty or holds only white space
\* sends a request.
C1_QuestionNeverBlank ==
    /\ [](\A r \in inflight : HasWord(r.payload.question))
    /\ [][~HasWord(question) => inflight' \subseteq inflight]_vars

\* C1 witness: a request is in flight and the input holds only white space,
\* where Enter reaches askQuestion once more.
C1_Witness ==
    /\ question = <<" ">>
    /\ \E r \in inflight : r.payload.question = <<" ", "a", " ">>

\* C2: while the list is not narrowed to tragedies, the {title, category}
\* entries offered as filter choices are the ones GET /plays returns.
C2_ChoicesFromListing ==
    ~showTragediesOnly => Range(filteredPlays) = playsListing

\* C3: a request sent by a step carries filters exactly when a play was
\* selected at that step; filters then has the one key play, holding the title
\* of that play, and otherwise the payload has only question and k.
C3_FiltersIffPlaySelected ==
    [][\A r \in inflight' \ inflight :
          IF selectedPlay = null
          THEN DOMAIN r.payload = {"question", "k"}
          ELSE /\ DOMAIN r.payload = {"question", "k", "filters"}
               /\ DOMAIN r.payload.filters = {"play"}
               /\ r.payload.filters.play = selectedPlay[1].title]_vars

\* C3 witness: one request in flight was sent with a play selected and
\* another with none.
C3_Witness ==
    \E r1, r2 \in inflight :
        /\ "filters" \in DOMAIN r1.payload
        /\ r1.payload.filters.play = "All's Well That Ends Well"
        /\ "filters" \notin DOMAIN r2.payload

\* C4: every POST /answer request goes to <NEXT_PUBLIC_BACKEND_URL>/answer.
C4_PostsToConfiguredBackend ==
    \A r \in inflight : r.url = backendEnv \o "/answer"

\* C5: the step in which a call rejects sets error to a message that is not
\* empty: 'Server Error: ...' when a response was received, the fixed
\* 'Network Error: ...' text when only the request was made, and
\* 'Error: ...' otherwise.
C5_FailureSurfaced ==
    [][(settled' # settled /\ Rejected') =>
          LET err == settled'[1].err IN
          /\ error' # ""
          /\ IF "response" \in DOMAIN err
             THEN HasPrefix(error', "Server Error: ")
             ELSE IF "request" \in DOMAIN err
             THEN error' = "Network Error: Unable to connect to the server. Please check your internet connection."
             ELSE HasPrefix(error', "Error: ")]_vars

\* C5 witness: a call failed with no response received, and the network
\* message is shown.
C5_Witness ==
    /\ Rejected
    /\ "response" \notin DOMAIN settled[1].err
    /\ "request" \in DOMAIN settled[1].err
    /\ HasPrefix(error, "Network Error: ")
    /\ ShowsError

\* C6: after an error response, the message shown is 'Server Error: ' followed
\* by the detail of the response body when the body has a detail that is not
\* empty, and by the HTTP status text only otherwise.
C6_DetailBeforeStatusText ==
    (Rejected /\ "response" \in DOMAIN settled[1].err) =>
        LET response == settled[1].err.response IN
        IF "detail" \in DOMAIN response.data /\ response.data.detail # ""
        THEN error = "Server Error: " \o response.data.detail
        ELSE error = "Server Error: " \o response.statusText

\* C6 witness: an error response with a detail and a different status text
\* was received, and the detail is shown.
C6_Witness ==
    /\ Rejected
    /\ "response" \in DOMAIN settled[1].err
    /\ settled[1].err.response.statusText = "Bad Request"
    /\ error = "Server Error: Question must not be empty"

\* C7: after a 200 response is processed, sources is the sources list of that
\* response, and the Sources section shows one card per entry in the same
\* order, so that a list received in descending similarity is shown so.
C7_SourcesAsReceived ==
    Resolved =>
        LET received == settled[1].data.sources IN
        /\ sources = received
        /\ Len(RenderedSources) = Len(received)
        /\ \A i \in 1..Len(received) :
               RenderedSources[i] = SourceCard(received[i])
        /\ (\A i, j \in 1..Len(received) :
                i < j => received[i].similarity >= received[j].similarity)
           => \A i, j \in 1..Len(RenderedSources) :
                i < j => RenderedSources[i].badge >= RenderedSources[j].badge

\* C7 witness: a response with two sources was processed and both are shown.
C7_Witness ==
    /\ Resolved
    /\ settled[1].data.sources = <<Source1, Source2>>
    /\ Len(RenderedSources) = 2

\* C8: the answer and the sources shown are both empty, or both are taken
\* from one and the same 200 response.
C8_AnswerAndSourcesOfOneResponse ==
    /\ answerOf = sourcesOf
    /\ IF answerOf = null
       THEN answer = "" /\ sources = <<>>
       ELSE /\ answer = answerOf[1].data.answer
            /\ sources = answerOf[1].data.sources

\* C8 witness: two requests overlapped, and the response of the first is
\* shown after the second was sent and has failed.
C8_Witness ==
    /\ nSent = 2
    /\ answerOf # null
    /\ answerOf[1].id = 1
    /\ Rejected
    /\ settled[1].id = 2

\* C9: every request carries k = 5, which is at least 1.
C9_KIsFive ==
    \A r \in inflight : r.payload.k = 5 /\ r.payload.k >= 1

\* C9 witness: two requests with different questions are in flight, one with
\* a play filter and one without, and both carry k = 5.
C9_Witness ==
    \E r1, r2 \in inflight :
        /\ r1.payload.question # r2.payload.question
        /\ r1.payload.k = 5 /\ r2.payload.k = 5
        /\ "filters" \in DOMAIN r1.payload
        /\ "filters" \notin DOMAIN r2.payload

\* C10: after a 200 response with the no-context answer and no sources is
\* processed, error is empty, the answer text is shown and the Sources section
\* is not.
C10_EmptyResultIsNoError ==
    (Resolved /\ settled[1].data.sources = <<>>) =>
        /\ error = ""
        /\ ~ShowsError
        /\ answer = settled[1].data.answer
        /\ ShowsAnswer
        /\ ~ShowsSources

\* C11: no two entries of the play list have the same title, at most one row
\* of the displayed list is drawn as selected, and the title of the selected
\* play belongs to exactly one entry of the list, with the selected category.
C11_TitlesUnique ==
    /\ \A i, j \in 1..Len(plays) :
           plays[i].title = plays[j].title => i = j
    /\ Cardinality(HighlightedRows) <= 1
    /\ selectedPlay # null =>
           /\ Cardinality({i \in 1..Len(plays) :
                             plays[i].title = selectedPlay[1].title}) = 1
           /\ \A i \in 1..Len(plays) :
                  plays[i].title = selectedPlay[1].title
                      => plays[i].category = selectedPlay[1].category

\* C11 witness: a tragedy is selected in the narrowed list and exactly one
\* row is drawn as selected.
C11_Witness ==
    /\ showTragediesOnly
    /\ selectedPlay # null
    /\ selectedPlay[1].title = "Antony and Cleopatra"
    /\ Cardinality(HighlightedRows) = 1

InFlight(id) == \E r \in inflight : r.id = id

\* A step that processes the outcome of a call.
SettleStep == inflight' # inflight /\ inflight' \subseteq inflight

\* A step that sends a request.
SendStep == inflight' \ inflight # {}

\* Every request sent has its outcome processed eventually, as Completed
\* (answer and sources set from the response) or as Failed (error set), with
\* loading false afterwards; and loading is reset by nothing else.
OutcomeProcessedOnce ==
    /\ \A id \in 1..MaxRequests :
           InFlight(id) ~> (settled # null /\ settled[1].id = id /\ ~loading)
    /\ [][SettleStep =>
            /\ ~loading'
            /\ \/ Resolved' /\ answer' = settled'[1].data.answer
                            /\ sources' = settled'[1].data.sources
                            /\ error' = error
               \/ Rejected' /\ error' # ""
                            /\ answer' = answer /\ sources' = sources]_vars
    /\ [][(loading /\ ~loading') => SettleStep]_vars

\* C12: every accepted submission reaches exactly one terminal outcome,
\* Completed or Failed, after which loading is false, given that its call
\* settles; and loading stays true for as long as a call has not settled.
C12_QueryLifecycle ==
    /\ OutcomeProcessedOnce
    /\ [](\A id \in 1..MaxRequests : InFlight(id) => loading)

\* C13: the requests sent are as many as the submissions accepted; a request
\* is sent only by a step that accepts a submission, one request per step,
\* and never by a step that processes an outcome.
C13_OneRequestPerSubmission ==
    /\ [](nSent = nAccepted)
    /\ [][SendStep =>
            /\ nAccepted' = nAccepted + 1
            /\ Cardinality(inflight' \ inflight) = 1
            /\ inflight \subseteq inflight'
            /\ HasWord(question)]_vars

\* C13 witness: two submissions were accepted, two requests were sent, and
\* the first of them has failed.
C13_Witness ==
    /\ nAccepted = 2
    /\ nSent = 2
    /\ Rejected
    /\ settled[1].id = 1
    /\ Cardinality(inflight) = 1

\* C14: at most one request is in flight, loading is true whenever a request
\* is in flight, and no step taken while loading is true sends a request.
C14_SingleFlight ==
    /\ [](Cardinality(inflight) <= 1)
    /\ [](inflight # {} => loading)
    /\ [][loading => ~SendStep]_vars

\* C15: the answer and sources shown, and an error set since the latest
\* submission, come from the request submitted last.
C15_OnlyLatestRequestShown ==
    /\ answerOf # null => answerOf[1].id = nSent
    /\ sourcesOf # null => sourcesOf[1].id = nSent
    /\ settled # null => settled[1].id = nSent

\* C16: whenever an error is shown, no answer and no sources are.
C16_ErrorExcludesAnswer ==
    error # "" => answer = "" /\ sources = <<>>

\* C17: whenever an answer is shown, the question shown above it is the
\* question text of the request whose response set that answer.
C17_QuestionOfShownAnswer ==
    ShowsAnswer =>
        /\ answerOf # null
        /\ DisplayedQuestion = answerOf[1].question

\* C18: a step that sends a request sets loading and empties error, answer
\* and sources; the request carries the question text and the selected play
\* of that moment; and a request in flight is never altered afterwards.
C18_SubmissionSnapshot ==
    /\ [][\A r \in inflight' \ inflight :
            /\ loading' /\ error' = "" /\ answer' = "" /\ sources' = <<>>
            /\ r.payload.question = question
            /\ IF selectedPlay = null
               THEN "filters" \notin DOMAIN r.payload
               ELSE r.payload.filters.play = selectedPlay[1].title]_vars
    /\ [][\A r \in inflight :
            r \in inflight' \/ (SettleStep /\ settled'[1].id = r.id)]_vars

\* C18 witness: a request sent with a padded question and no play is still in
\* flight as sent, after the input was emptied and a play selected.
C18_Witness ==
    /\ question = <<>>
    /\ selectedPlay # null
    /\ loading
    /\ \E r \in inflight :
           /\ r.payload.question = <<" ", "a", " ">>
           /\ "filters" \notin DOMAIN r.payload

\* C19: a step that neither sends a request nor processes an outcome leaves
\* answer, sources, error and loading as they are and changes at most one of
\* question, selectedPlay and showTragediesOnly; a play that the narrowed
\* list hides is still the filter of the next request.
C19_HandlersChangeOwnVariable ==
    /\ [][inflight' = inflight =>
            /\ UNCHANGED <<answer, sources, error, loading>>
            /\ selectedPlay' # selectedPlay =>
                   UNCHANGED <<question, showTragediesOnly>>
            /\ showTragediesOnly' # showTragediesOnly =>
                   UNCHANGED <<question, selectedPlay>>
            /\ question' # question =>
                   UNCHANGED <<selectedPlay, showTragediesOnly>>]_vars
    /\ [][\A r \in inflight' \ inflight :
            (selectedPlay # null /\ selectedPlay[1] \notin Range(filteredPlays))
                => r.payload.filters.play = selectedPlay[1].title]_vars

\* C19 witness: a comedy stayed selected after the list was narrowed to
\* tragedies, and a request in flight carries it as its filter.
C19_Witness ==
    /\ showTragediesOnly
    /\ selectedPlay # null
    /\ selectedPlay[1].category = "Comedy"
    /\ selectedPlay[1] \notin Range(filteredPlays)
    /\ \E r \in inflight :
           /\ "filters" \in DOMAIN r.payload
           /\ r.payload.filters.play = selectedPlay[1].title

====
